---- MODULE Spec2Model ----
(***************************************************************************)
(* Stock ledger of the print-shop backend (src/app.py): the stock table,   *)
(* the stock_additions log, the order_items_used log and the orders they   *)
(* refer to, with the request handlers that change them.                   *)
(*                                                                         *)
(* Numbers are exact rationals <<numerator, denominator>> in lowest terms  *)
(* (the code uses IEEE doubles; rounding is not modelled).  Text that      *)
(* float() rejects is the value NotANumber.  Dates (last_updated,          *)
(* date_added, orders.date) and the order columns the ledger never reads   *)
(* are left out, and so are the session checks (ensure_logged_in), which  *)
(* touch no table.  Form text for item_no and size is a sequence of        *)
(* characters so that strip() is computed.  Where a SELECT without ORDER   *)
(* BY feeds fetchone(), any matching row may be the one returned.          *)
(***************************************************************************)
EXTENDS Integers, Sequences, FiniteSets, TLC

VARIABLES stock, stock_additions, order_items_used, orders,
          stock_seq, usage_seq, orders_seq, response, audit, inflight

vars == <<stock, stock_additions, order_items_used, orders,
          stock_seq, usage_seq, orders_seq, response, audit, inflight>>

tables == <<stock, stock_additions, order_items_used, orders,
            stock_seq, usage_seq, orders_seq>>

(* ---------------------------- bounds ---------------------------------- *)
MaxStock == 2
MaxAdds == 2
MaxUsage == 2
MaxOrders == 1
MaxQty == 1
MaxCost == 1
MaxPaid == 2

(* ------------------------- exact arithmetic --------------------------- *)
Abs(n) == IF n < 0 THEN -n ELSE n

RECURSIVE GCD(_, _)
GCD(a, b) == IF b = 0 THEN a ELSE GCD(b, a % b)

Norm(n, d) ==
    LET g == GCD(Abs(n), Abs(d))
        s == IF d < 0 THEN -1 ELSE 1
    IN <<(s * n) \div g, (s * d) \div g>>

Float(n) == <<n, 1>>
Zero == Float(0)
NotANumber == <<0, 0>>
IsNumeric(x) == Len(x) = 2 /\ x[2] # 0

RAdd(x, y) == Norm(x[1] * y[2] + y[1] * x[2], x[2] * y[2])
RSub(x, y) == Norm(x[1] * y[2] - y[1] * x[2], x[2] * y[2])
RMul(x, y) == Norm(x[1] * y[1], x[2] * y[2])
RDiv(x, y) == Norm(x[1] * y[2], x[2] * y[1])
RLt(x, y) == x[1] * y[2] < y[1] * x[2]
RLe(x, y) == x[1] * y[2] <= y[1] * x[2]

(* ----------------------------- text ----------------------------------- *)
None == <<"None">>
Empty == <<>>
OrEmpty(s) == IF s = None THEN Empty ELSE s

RECURSIVE LStrip(_)
LStrip(s) == IF s # <<>> /\ Head(s) = " " THEN LStrip(Tail(s)) ELSE s

RECURSIVE RStrip(_)
RStrip(s) ==
    IF s # <<>> /\ s[Len(s)] = " " THEN RStrip(SubSeq(s, 1, Len(s) - 1)) ELSE s

Strip(s) == RStrip(LStrip(s))

(* ------------------------- request inputs ----------------------------- *)
ItemNames == {"A"}
ItemNoTexts == {None, <<" ", "7">>}
SizeTexts == {None}
AddQtyTexts == {Float(n) : n \in -1..MaxQty} \cup {NotANumber}
AddCostTexts == {Float(n) : n \in 1..MaxCost} \cup {NotANumber}
UseQtyTexts == {Float(n) : n \in 0..(MaxQty + 1)} \cup {NotANumber}
BulkQtyTexts == {Empty, NotANumber} \cup {Float(n) : n \in 0..MaxQty}
StockIds == 1..MaxStock
OrderIds == 1..(MaxOrders + 1)

FormGet(v, default) == IF v = None THEN default ELSE v

(* ------------------------------ state --------------------------------- *)
\* history of each stock id: what additions and usage did to it
\* requests between their SELECT and their commit: the two requests of a
\* concurrent pair, and the database they found when the pair began
Reqs == {"a", "b"}
Idle == [pc |-> "idle"]

NoAudit ==
    [added_qty |-> Zero, added_cost |-> Zero, nonpos_add |-> FALSE,
     deducted |-> Zero, cascaded |-> Zero]

Init ==
    /\ stock = {}
    /\ stock_additions = <<>>
    /\ order_items_used = {}
    /\ orders = {}
    /\ stock_seq = 0
    /\ usage_seq = 0
    /\ orders_seq = 0
    /\ response = "none"
    /\ audit = [i \in StockIds |-> NoAudit]
    /\ inflight = [base |-> Idle, reqs |-> [r \in Reqs |-> Idle]]

\* an unhandled exception: nothing is committed
Abort(msg) == /\ response' = msg
              /\ UNCHANGED <<tables, audit, inflight>>

(* ---------------------------- upsert_stock ---------------------------- *)
\* slip: every column has to match, whatever item_no is
LookupRowsAllColumns(item_name, item_no, size) ==
    {r \in stock : r.item_no = item_no /\ r.item_name = item_name
                   /\ OrEmpty(r.size) = size}

\* slip: the (item_name, size) branch is missing
LookupRowsNoFallback(item_name, item_no, size) ==
    IF item_no # Empty THEN {r \in stock : r.item_no = item_no} ELSE {}

\* rows the lookup SELECT returns
LookupRows(item_name, item_no, size) ==
    IF item_no # Empty
    THEN {r \in stock : r.item_no = item_no}
    ELSE {r \in stock : r.item_name = item_name /\ OrEmpty(r.size) = size}

\* slip: the cost already in stock is left out of the average
NewUnitIgnoringOld(old_qty, old_unit, add_qty, add_cost) ==
    LET new_qty == RAdd(old_qty, add_qty)
    IN IF RLt(Zero, new_qty) THEN RDiv(add_cost, new_qty) ELSE Zero

NewUnit(old_qty, old_unit, add_qty, add_cost) ==
    LET new_qty == RAdd(old_qty, add_qty)
    IN IF RLt(Zero, new_qty)
       THEN RDiv(RAdd(RMul(old_qty, old_unit), add_cost), new_qty)
       ELSE Zero

UpdatedRow(row, add_qty, add_cost) ==
    LET new_qty == RAdd(row.quantity, add_qty)
        new_unit == NewUnit(row.quantity, row.unit_cost, add_qty, add_cost)
    IN [row EXCEPT !.quantity = new_qty,
                   !.unit_cost = new_unit,
                   !.total_amount = RMul(new_qty, new_unit)]

AdditionUnit(add_qty, add_cost) ==
    IF RLt(Zero, add_qty) THEN RDiv(add_cost, add_qty) ELSE Zero

\* slip: the cost of the addition is stored as total_amount
InsertedRowCostAsTotal(id, item_name, item_no, size, add_qty, add_cost) ==
    [id |-> id, item_name |-> item_name, item_no |-> item_no,
     quantity |-> add_qty, unit_cost |-> AdditionUnit(add_qty, add_cost),
     size |-> size, total_amount |-> add_cost]

InsertedRow(id, item_name, item_no, size, add_qty, add_cost) ==
    LET unit_cost == AdditionUnit(add_qty, add_cost)
    IN [id |-> id, item_name |-> item_name, item_no |-> item_no,
        quantity |-> add_qty, unit_cost |-> unit_cost, size |-> size,
        total_amount |-> RMul(add_qty, unit_cost)]

\* slip: the total cost lands in the unit_cost column
AdditionRowCostAsUnit(id, item_name, item_no, add_qty, add_cost) ==
    [id |-> id, item_name |-> item_name, item_no |-> item_no,
     quantity |-> add_qty, unit_cost |-> add_cost,
     total_amount_added |-> add_cost]

AdditionRow(id, item_name, item_no, add_qty, add_cost) ==
    [id |-> id, item_name |-> item_name, item_no |-> item_no,
     quantity |-> add_qty, unit_cost |-> AdditionUnit(add_qty, add_cost),
     total_amount_added |-> add_cost]

\* slip: the log keeps one row per item and overwrites it
LoggedAdditionsPerItem(row) ==
    IF \E i \in 1..Len(stock_additions) : stock_additions[i].item_name = row.item_name
    THEN LET i == CHOOSE j \in 1..Len(stock_additions) :
                    stock_additions[j].item_name = row.item_name
         IN [stock_additions EXCEPT ![i] = [row EXCEPT !.id = i]]
    ELSE Append(stock_additions, row)

\* INSERT INTO stock_additions: the log after the new row
LoggedAdditions(row) == Append(stock_additions, row)

AuditAdd(a, add_qty, add_cost) ==
    [a EXCEPT !.added_qty = RAdd(@, add_qty),
              !.added_cost = RAdd(@, add_cost),
              !.nonpos_add = @ \/ RLe(add_qty, Zero)]

UpsertStock(item_name, item_no_in, size_in, add_qty, add_cost) ==
    LET item_no == Strip(OrEmpty(item_no_in))
        size == Strip(OrEmpty(size_in))
        found == LookupRows(item_name, item_no, size)
    IN /\ Len(stock_additions) < MaxAdds
       /\ IF found # {}
          THEN \E row \in found :
                 /\ stock' = (stock \ {row}) \cup {UpdatedRow(row, add_qty, add_cost)}
                 /\ audit' = [audit EXCEPT ![row.id] = AuditAdd(@, add_qty, add_cost)]
                 /\ UNCHANGED stock_seq
          ELSE /\ stock_seq < MaxStock
               /\ stock_seq' = stock_seq + 1
               /\ stock' = stock \cup
                    {InsertedRow(stock_seq + 1, item_name, item_no, size, add_qty, add_cost)}
               /\ audit' = [audit EXCEPT ![stock_seq + 1] = AuditAdd(@, add_qty, add_cost)]
       /\ stock_additions' = LoggedAdditions(
            AdditionRow(Len(stock_additions) + 1, item_name, item_no, add_qty, add_cost))
       /\ UNCHANGED <<order_items_used, orders, usage_seq, orders_seq, inflight>>

WorkerStock(item_name, item_no, size, added_quantity, addition_total_cost) ==
    IF ~IsNumeric(added_quantity) \/ ~IsNumeric(addition_total_cost)
    THEN Abort("ValueError")
    ELSE /\ UpsertStock(item_name, FormGet(item_no, Empty), FormGet(size, Empty),
                        added_quantity, addition_total_cost)
         /\ response' = "Stock updated"

OwnerStock(action, item_name, item_no, size, added_quantity, addition_total_cost) ==
    IF action # "add_stock"
    THEN Abort("owner_stock.html")
    ELSE IF ~IsNumeric(added_quantity) \/ ~IsNumeric(addition_total_cost)
    THEN Abort("ValueError")
    ELSE /\ UpsertStock(item_name, FormGet(item_no, Empty), FormGet(size, Empty),
                        added_quantity, addition_total_cost)
         /\ response' = "Stock added or updated successfully"

(* --------------------------- add_item_usage --------------------------- *)
RECURSIVE SumUsed(_)
SumUsed(rows) ==
    IF rows = {} THEN Zero
    ELSE LET u == CHOOSE x \in rows : TRUE
         IN RAdd(u.quantity_used, SumUsed(rows \ {u}))

UsageOf(stock_id) == {u \in order_items_used : u.stock_item_id = stock_id}

\* slip: a zero quantity gets past the test
InvalidQuantityStrict(qty_used) == RLt(qty_used, Zero)

InvalidQuantity(qty_used) == RLe(qty_used, Zero)

StockById(stock_id) == {r \in stock : r.id = stock_id}

\* slip: only an empty item is refused
NotEnoughWhenEmpty(row, qty_used) == RLe(row.quantity, Zero)

NotEnough(row, qty_used) == RLt(row.quantity, qty_used)

\* slip: total_amount is computed from the quantity before the deduction
DeductedRowStaleTotal(row, qty_used) ==
    [row EXCEPT !.quantity = RSub(row.quantity, qty_used),
                !.total_amount = RMul(row.quantity, row.unit_cost)]

DeductedRow(row, qty_used) ==
    [row EXCEPT !.quantity = RSub(row.quantity, qty_used),
                !.total_amount = RMul(RSub(row.quantity, qty_used), row.unit_cost)]

\* slip: order id and stock id bound to the wrong columns
UsageRowSwapped(id, order_id, stock_id, qty_used) ==
    [id |-> id, order_id |-> stock_id, stock_item_id |-> order_id,
     quantity_used |-> qty_used]

UsageRow(id, order_id, stock_id, qty_used) ==
    [id |-> id, order_id |-> order_id, stock_item_id |-> stock_id,
     quantity_used |-> qty_used]

AuditDeduct(a, qty_used) == [a EXCEPT !.deducted = RAdd(@, qty_used)]

\* the returned error text, "None" on success
AddItemUsage(order_id, stock_id, qty_used, err) ==
    IF InvalidQuantity(qty_used)
    THEN /\ err = "Quantity must be > 0"
         /\ UNCHANGED <<tables, audit, inflight>>
    ELSE IF StockById(stock_id) = {}
    THEN /\ err = "Stock item not found"
         /\ UNCHANGED <<tables, audit, inflight>>
    ELSE \E s \in StockById(stock_id) :
           IF NotEnough(s, qty_used)
           THEN /\ err = "Not enough stock"
                /\ UNCHANGED <<tables, audit, inflight>>
           ELSE /\ err = "None"
                /\ usage_seq < MaxUsage
                /\ stock' = (stock \ {s}) \cup {DeductedRow(s, qty_used)}
                /\ usage_seq' = usage_seq + 1
                /\ order_items_used' = order_items_used \cup
                     {UsageRow(usage_seq + 1, order_id, stock_id, qty_used)}
                /\ audit' = [audit EXCEPT ![stock_id] = AuditDeduct(@, qty_used)]
                /\ UNCHANGED <<stock_additions, orders, stock_seq, orders_seq, inflight>>

Flashed(err) == IF err = "None" THEN "Item usage saved & stock updated" ELSE err

AddOrderItem(order_id, stock_id, qty_used) ==
    IF ~IsNumeric(qty_used)
    THEN Abort("ValueError")
    ELSE \E err \in {"None", "Quantity must be > 0", "Stock item not found",
                     "Not enough stock"} :
           /\ AddItemUsage(order_id, stock_id, qty_used, err)
           /\ response' = Flashed(err)

(* ------------------------- worker_order_items ------------------------- *)
\* rows of the loop that get past both "continue" tests
BulkPicked(form) ==
    {r \in stock : form[r.id] # Empty /\ ~RLe(form[r.id], Zero)}

\* slip: only total_amount is updated, quantity is left alone
BulkDeductedRowTotalOnly(row, qty_used) ==
    [row EXCEPT !.total_amount = RMul(RSub(row.quantity, qty_used), row.unit_cost)]

BulkDeductedRow(row, qty_used) ==
    [row EXCEPT !.quantity = RSub(row.quantity, qty_used),
                !.total_amount = RMul(RSub(row.quantity, qty_used), row.unit_cost)]

BulkUsageRow(id, oid, sid, qty_used) ==
    [id |-> id, order_id |-> oid, stock_item_id |-> sid, quantity_used |-> qty_used]

\* position of a picked row in the loop (rows are visited in id order)
BulkRank(picked, row) == Cardinality({p \in picked : p.id <= row.id})

WorkerOrderItems(oid, form) ==
    IF \E r \in stock : form[r.id] # Empty /\ ~IsNumeric(form[r.id])
    THEN Abort("ValueError")
    ELSE LET picked == BulkPicked(form)
         IN /\ usage_seq + Cardinality(picked) <= MaxUsage
            /\ stock' = {IF r \in picked THEN BulkDeductedRow(r, form[r.id]) ELSE r :
                           r \in stock}
            /\ order_items_used' = order_items_used \cup
                 {BulkUsageRow(usage_seq + BulkRank(picked, r), oid, r.id, form[r.id]) :
                    r \in picked}
            /\ usage_seq' = usage_seq + Cardinality(picked)
            /\ audit' = [i \in StockIds |->
                           IF \E r \in picked : r.id = i
                           THEN AuditDeduct(audit[i], form[i])
                           ELSE audit[i]]
            /\ response' = "Items usage saved and stock updated"
            /\ UNCHANGED <<stock_additions, orders, stock_seq, orders_seq, inflight>>

(* ----------------------------- delete_stock --------------------------- *)
\* slip: the count filters on order_id
UsedCountByOrder(stock_id) ==
    Cardinality({u \in order_items_used : u.order_id = stock_id})

UsedCount(stock_id) == Cardinality(UsageOf(stock_id))

DeleteStock(stock_id) ==
    IF UsedCount(stock_id) > 0
    THEN /\ response' = "This stock item has been used in previous orders and cannot be deleted."
         /\ UNCHANGED <<tables, audit, inflight>>
    ELSE /\ stock' = {r \in stock : r.id # stock_id}
         /\ response' = "Stock item deleted successfully!"
         /\ UNCHANGED <<stock_additions, order_items_used, orders,
                        stock_seq, usage_seq, orders_seq, audit, inflight>>

(* ------------------------------- orders ------------------------------- *)
CustomerPlaceOrder ==
    /\ orders_seq < MaxOrders
    /\ orders_seq' = orders_seq + 1
    /\ orders' = orders \cup
         {[id |-> orders_seq + 1, total_cost |-> None, amount_paid |-> Zero,
           status |-> "Pending", receive_date |-> "NULL"]}
    /\ response' = "Order placed successfully!"
    /\ UNCHANGED <<stock, stock_additions, order_items_used, stock_seq, usage_seq,
                   audit, inflight>>

\* slip: the DELETE filters on the usage row's own id
UsageAfterDeleteById(oid) == {u \in order_items_used : u.id # oid}

\* slip: the DELETE has no WHERE clause
UsageAfterDeleteAll(oid) == {}

\* usage rows that survive DELETE FROM order_items_used WHERE order_id=?
UsageAfterDelete(oid) == {u \in order_items_used : u.order_id # oid}

AuditCascade(a, i, oid) ==
    [a EXCEPT !.cascaded =
        RAdd(@, SumUsed({u \in order_items_used :
                           u.order_id = oid /\ u.stock_item_id = i}))]

OwnerOrdersDelete(oid) ==
    /\ order_items_used' = UsageAfterDelete(oid)
    /\ orders' = {o \in orders : o.id # oid}
    /\ audit' = [i \in StockIds |-> AuditCascade(audit[i], i, oid)]
    /\ response' = "Order updated successfully!"
    /\ UNCHANGED <<stock, stock_additions, stock_seq, usage_seq, orders_seq, inflight>>

(* ---------------------- order status and money ---------------------- *)
\* date.today().isoformat()
Today == "today"

\* "x or 0" on form text
OrZero(text) == IF text = Empty \/ text = None THEN Zero ELSE text

\* "x or None" on form text, as the column value
OrNull(text) == IF text = "" THEN "NULL" ELSE text

\* rd of the update_status branches
ReceiveDateFor(s) == IF s = "Completed" THEN Today ELSE "NULL"

StatusSet(oid, s) ==
    {IF o.id = oid THEN [o EXCEPT !.status = s, !.receive_date = ReceiveDateFor(s)]
     ELSE o : o \in orders}

PaidAdded(oid, p) ==
    {IF o.id = oid THEN [o EXCEPT !.amount_paid = RAdd(@, p)] ELSE o : o \in orders}

TotalCostSet(oid, tc) ==
    {IF o.id = oid THEN [o EXCEPT !.total_cost = tc] ELSE o : o \in orders}

\* keeps amount_paid within the explored range
PaidInRange(oid, p) ==
    \A o \in orders : o.id = oid => RLe(RAdd(o.amount_paid, p), Float(MaxPaid))

OrdersOnly ==
    UNCHANGED <<stock, stock_additions, order_items_used, stock_seq, usage_seq,
                orders_seq, audit, inflight>>

WorkerOrders(oid, act, s, amount_paid) ==
    IF act = "update_status"
    THEN /\ orders' = StatusSet(oid, s)
         /\ response' = "Updated"
         /\ OrdersOnly
    ELSE IF act = "update_paid"
    THEN IF ~IsNumeric(OrZero(amount_paid))
         THEN Abort("ValueError")
         ELSE /\ PaidInRange(oid, OrZero(amount_paid))
              /\ orders' = PaidAdded(oid, OrZero(amount_paid))
              /\ response' = "Updated"
              /\ OrdersOnly
    ELSE /\ response' = "Updated"
         /\ UNCHANGED <<tables, audit, inflight>>

OwnerOrders(oid, action, status, amount_paid, total_cost) ==
    IF action = "update_status"
    THEN /\ orders' = StatusSet(oid, status)
         /\ response' = "Order updated successfully!"
         /\ OrdersOnly
    ELSE IF action = "update_paid"
    THEN IF ~IsNumeric(OrZero(amount_paid))
         THEN Abort("ValueError")
         ELSE /\ PaidInRange(oid, OrZero(amount_paid))
              /\ orders' = PaidAdded(oid, OrZero(amount_paid))
              /\ response' = "Order updated successfully!"
              /\ OrdersOnly
    ELSE IF action = "update_total_cost"
    THEN IF ~IsNumeric(OrZero(total_cost))
         THEN Abort("ValueError")
         ELSE /\ orders' = TotalCostSet(oid, OrZero(total_cost))
              /\ response' = "Order updated successfully!"
              /\ OrdersOnly
    ELSE IF action = "delete_order"
    THEN OwnerOrdersDelete(oid)
    ELSE /\ response' = "Order updated successfully!"
         /\ UNCHANGED <<tables, audit, inflight>>

\* product_name, size and colour are stored as given and not modelled
OwnerEditOrder(order_id, quantity, total_cost, status, receive_date) ==
    IF ~IsNumeric(quantity) \/ ~IsNumeric(OrZero(total_cost))
    THEN Abort("ValueError")
    ELSE /\ orders' =
              {IF o.id = order_id
               THEN [o EXCEPT !.total_cost = OrZero(total_cost),
                              !.status = status,
                              !.receive_date = OrNull(receive_date)]
               ELSE o : o \in orders}
         /\ response' = "Order updated!"
         /\ OrdersOnly

(* ------------------- two requests at the same time ------------------- *)
\* Each request has its own connection (get_db).  Its SELECT runs before
\* any transaction is open; the write transaction begins at the first
\* UPDATE or INSERT and ends at commit, and SQLite runs write transactions
\* one at a time.  A request therefore takes two steps: the read, and then
\* the writes with the commit.
NoRow == [id |-> 0]

AddOp(item_name, item_no, size, add_qty, add_cost) ==
    [kind |-> "add", item_name |-> item_name,
     item_no |-> Strip(OrEmpty(FormGet(item_no, Empty))),
     size |-> Strip(OrEmpty(FormGet(size, Empty))),
     add_qty |-> add_qty, add_cost |-> add_cost]

UseOp(order_id, stock_id, qty_used) ==
    [kind |-> "use", order_id |-> order_id, stock_id |-> stock_id, qty_used |-> qty_used]

Db ==
    [stock |-> stock, stock_seq |-> stock_seq, stock_additions |-> stock_additions,
     order_items_used |-> order_items_used, usage_seq |-> usage_seq]

Quiet == \A r \in Reqs : inflight.reqs[r].pc = "idle"

Reading(kind) ==
    {r \in Reqs : inflight.reqs[r].pc = "read" /\ inflight.reqs[r].op.kind = kind}

\* the request has read and goes on to write
Started(r, op, seen) ==
    [base |-> IF Quiet THEN Db ELSE inflight.base,
     reqs |-> [inflight.reqs EXCEPT ![r] = [pc |-> "read", op |-> op, seen |-> seen]]]

\* the request is over
Finished(r, op) ==
    [base |-> IF Quiet THEN Db ELSE inflight.base,
     reqs |-> [inflight.reqs EXCEPT ![r] = [pc |-> "done", op |-> op]]]

\* upsert_stock up to fetchone()
ConcReadAdd(r, op) ==
    /\ inflight.reqs[r].pc = "idle"
    /\ op.kind = "add"
    /\ Len(stock_additions) + Cardinality(Reading("add")) < MaxAdds
    /\ stock_seq + Cardinality(Reading("add")) < MaxStock
    /\ LET found == LookupRows(op.item_name, op.item_no, op.size)
       IN \E seen \in (IF found # {} THEN found ELSE {NoRow}) :
            inflight' = Started(r, op, seen)
    /\ UNCHANGED <<tables, audit, response>>

\* add_item_usage up to the tests on the row it fetched
ConcReadUse(r, op) ==
    /\ inflight.reqs[r].pc = "idle"
    /\ op.kind = "use"
    /\ usage_seq + Cardinality(Reading("use")) < MaxUsage
    /\ IF InvalidQuantity(op.qty_used)
       THEN /\ inflight' = Finished(r, op)
            /\ response' = "Quantity must be > 0"
       ELSE IF StockById(op.stock_id) = {}
       THEN /\ inflight' = Finished(r, op)
            /\ response' = "Stock item not found"
       ELSE \E s \in StockById(op.stock_id) :
              IF NotEnough(s, op.qty_used)
              THEN /\ inflight' = Finished(r, op)
                   /\ response' = "Not enough stock"
              ELSE /\ inflight' = Started(r, op, s)
                   /\ UNCHANGED response
    /\ UNCHANGED <<tables, audit>>

\* UPDATE stock SET quantity=?, unit_cost=?, total_amount=? WHERE id=?
Overwritten(current, computed) ==
    [current EXCEPT !.quantity = computed.quantity,
                    !.unit_cost = computed.unit_cost,
                    !.total_amount = computed.total_amount]

\* upsert_stock from the UPDATE or INSERT to the commit
ConcWriteAdd(r) ==
    LET op == inflight.reqs[r].op
        seen == inflight.reqs[r].seen
    IN /\ inflight.reqs[r].pc = "read"
       /\ op.kind = "add"
       /\ IF seen # NoRow
          THEN /\ stock' = {IF x.id = seen.id
                            THEN Overwritten(x, UpdatedRow(seen, op.add_qty, op.add_cost))
                            ELSE x : x \in stock}
               /\ audit' = [audit EXCEPT ![seen.id] = AuditAdd(@, op.add_qty, op.add_cost)]
               /\ UNCHANGED stock_seq
          ELSE /\ stock_seq' = stock_seq + 1
               /\ stock' = stock \cup
                    {InsertedRow(stock_seq + 1, op.item_name, op.item_no, op.size,
                                 op.add_qty, op.add_cost)}
               /\ audit' = [audit EXCEPT ![stock_seq + 1] =
                                            AuditAdd(@, op.add_qty, op.add_cost)]
       /\ stock_additions' = LoggedAdditions(
            AdditionRow(Len(stock_additions) + 1, op.item_name, op.item_no,
                        op.add_qty, op.add_cost))
       /\ inflight' = Finished(r, op)
       /\ response' = "Stock updated"
       /\ UNCHANGED <<order_items_used, orders, usage_seq, orders_seq>>

\* add_item_usage from the UPDATE to the commit
ConcWriteUse(r) ==
    LET op == inflight.reqs[r].op
    IN /\ inflight.reqs[r].pc = "read"
       /\ op.kind = "use"
       /\ stock' = {IF x.id = op.stock_id THEN DeductedRow(x, op.qty_used) ELSE x :
                      x \in stock}
       /\ usage_seq' = usage_seq + 1
       /\ order_items_used' = order_items_used \cup
            {UsageRow(usage_seq + 1, op.order_id, op.stock_id, op.qty_used)}
       /\ audit' = [audit EXCEPT ![op.stock_id] = AuditDeduct(@, op.qty_used)]
       /\ inflight' = Finished(r, op)
       /\ response' = "Item usage saved & stock updated"
       /\ UNCHANGED <<stock_additions, orders, stock_seq, orders_seq>>

\* one request run alone on the database db: the databases it can leave
SerialAdd(db, op) ==
    LET found == IF op.item_no # Empty
                 THEN {x \in db.stock : x.item_no = op.item_no}
                 ELSE {x \in db.stock : x.item_name = op.item_name
                                        /\ OrEmpty(x.size) = op.size}
        logged == Append(db.stock_additions,
                         AdditionRow(Len(db.stock_additions) + 1, op.item_name,
                                     op.item_no, op.add_qty, op.add_cost))
    IN IF found # {}
       THEN {[db EXCEPT !.stock = (@ \ {row}) \cup
                                    {UpdatedRow(row, op.add_qty, op.add_cost)},
                        !.stock_additions = logged] : row \in found}
       ELSE {[db EXCEPT !.stock = @ \cup
                           {InsertedRow(db.stock_seq + 1, op.item_name, op.item_no,
                                        op.size, op.add_qty, op.add_cost)},
                        !.stock_seq = @ + 1,
                        !.stock_additions = logged]}

SerialUse(db, op) ==
    LET rows == {x \in db.stock : x.id = op.stock_id}
    IN IF InvalidQuantity(op.qty_used) \/ rows = {}
       THEN {db}
       ELSE {IF NotEnough(s, op.qty_used)
             THEN db
             ELSE [db EXCEPT !.stock = (@ \ {s}) \cup {DeductedRow(s, op.qty_used)},
                             !.order_items_used = @ \cup
                                {UsageRow(db.usage_seq + 1, op.order_id, op.stock_id,
                                          op.qty_used)},
                             !.usage_seq = @ + 1] : s \in rows}

Serial(db, op) == IF op.kind = "add" THEN SerialAdd(db, op) ELSE SerialUse(db, op)

\* one request after the other, in either order
SerialOutcomes(db, p, q) ==
    UNION {Serial(d, q) : d \in Serial(db, p)} \cup
    UNION {Serial(d, p) : d \in Serial(db, q)}

(* --------------------------- specification ---------------------------- *)
Next ==
    \/ \E n \in ItemNames, no \in ItemNoTexts, sz \in SizeTexts,
          q \in AddQtyTexts, c \in AddCostTexts :
         WorkerStock(n, no, sz, q, c)
    \/ \E a \in {"add_stock", ""}, n \in ItemNames, no \in ItemNoTexts, sz \in SizeTexts,
          q \in AddQtyTexts, c \in AddCostTexts :
         OwnerStock(a, n, no, sz, q, c)
    \/ \E o \in OrderIds, s \in StockIds, q \in UseQtyTexts : AddOrderItem(o, s, q)
    \/ \E o \in OrderIds, f \in [StockIds -> BulkQtyTexts] : WorkerOrderItems(o, f)
    \/ \E s \in StockIds : DeleteStock(s)
    \/ CustomerPlaceOrder
    \/ \E o \in OrderIds : OwnerOrdersDelete(o)

Spec == Init /\ [][Next]_vars

TypeOK ==
    /\ \A r \in stock : r.id \in 1..stock_seq
    /\ \A u \in order_items_used : u.id \in 1..usage_seq
    /\ \A o \in orders : o.id \in 1..orders_seq

(* ============================== claims ================================ *)
NumericUseQty == {q \in UseQtyTexts : IsNumeric(q)}
Row(stock_id) == CHOOSE r \in stock : r.id = stock_id
Exists(stock_id) == \E r \in stock : r.id = stock_id
UsageSaved == "Item usage saved & stock updated"
\* what add_order_item flashes, and no other handler does
UsageFlashes ==
    {UsageSaved, "Quantity must be > 0", "Stock item not found", "Not enough stock"}

\* C1: in every reachable state every stock item's quantity is >= 0.
C1_QuantityNeverNegative == \A r \in stock : RLe(Zero, r.quantity)

\* C2: in every reachable state every stock item has
\* total_amount = quantity * unit_cost.
C2_TotalIsQuantityTimesUnitCost ==
    \A r \in stock : r.total_amount = RMul(r.quantity, r.unit_cost)

\* an item that was added to twice and used, with a non-zero total
C2_Witness ==
    \E r \in stock : /\ audit[r.id].deducted # Zero
                     /\ Len(stock_additions) = 2
                     /\ r.total_amount # Zero
                     /\ audit[r.id].added_qty = Float(2)

\* C3 (as stated): for an item that only received additions, quantity is the
\* sum of the added quantities and unit_cost is the sum of the addition costs
\* divided by the sum of the added quantities.
C3_WeightedAverageLaw ==
    \A r \in stock :
       (audit[r.id].deducted = Zero /\ audit[r.id].added_qty # Zero)
       => /\ r.quantity = audit[r.id].added_qty
          /\ r.unit_cost = RDiv(audit[r.id].added_cost, audit[r.id].added_qty)

\* C3 (amended): the law holds when every added quantity was > 0.
C3_WeightedAverageLawPositive ==
    \A r \in stock :
       (audit[r.id].deducted = Zero /\ ~audit[r.id].nonpos_add)
       => /\ r.quantity = audit[r.id].added_qty
          /\ r.unit_cost = RDiv(audit[r.id].added_cost, audit[r.id].added_qty)

\* two positive additions to the same item, nothing used
C3_Witness ==
    \E r \in stock : /\ audit[r.id].deducted = Zero
                     /\ ~audit[r.id].nonpos_add
                     /\ audit[r.id].added_qty = Float(2)
                     /\ audit[r.id].added_cost = Float(2)

\* C4: consumeStock fails with InvalidQuantity when q <= 0, otherwise with
\* NotFound when no stock item has the id, otherwise with InsufficientStock
\* when the item's quantity < q; a failure changes no stock item and adds no
\* usage record.
C4_ConsumeFailures ==
    [][response' \in UsageFlashes =>
       \A o \in OrderIds, s \in StockIds, q \in NumericUseQty :
         AddOrderItem(o, s, q) =>
           /\ RLe(q, Zero) => response' = "Quantity must be > 0"
           /\ (~RLe(q, Zero) /\ ~Exists(s)) => response' = "Stock item not found"
           /\ (~RLe(q, Zero) /\ Exists(s) /\ RLt(Row(s).quantity, q))
                => response' = "Not enough stock"
           /\ (RLe(q, Zero) \/ ~Exists(s) \/ RLt(Row(s).quantity, q))
                => /\ stock' = stock
                   /\ order_items_used' = order_items_used]_vars

\* a consumeStock was refused for lack of stock while usage was on record
C4_Witness == response = "Not enough stock" /\ order_items_used # {}

\* C5: a consumeStock call on items whose quantity is >= 0 leaves every
\* such quantity >= 0.
C5_ConsumeKeepsNonNegative ==
    [][response' \in UsageFlashes =>
       \A o \in OrderIds, s \in StockIds, q \in NumericUseQty :
         AddOrderItem(o, s, q) =>
           \A r \in stock : RLe(Zero, r.quantity) =>
              \A t \in stock' : t.id = r.id => RLe(Zero, t.quantity)]_vars

\* a successful consumeStock took an item down to exactly zero
C5_Witness ==
    /\ response = UsageSaved
    /\ \E r \in stock : r.quantity = Zero /\ audit[r.id].deducted # Zero

\* C6: a successful consumeStock(o, s, q) takes q off that item's quantity,
\* keeps its unit_cost, sets total_amount to new quantity * unit_cost, adds
\* exactly one usage record (o, s, q) and changes nothing else in stock,
\* stock_additions and order_items_used.
C6_ConsumeEffect ==
    [][response' = UsageSaved =>
       \A o \in OrderIds, s \in StockIds, q \in NumericUseQty :
         AddOrderItem(o, s, q) =>
           /\ Exists(s)
           /\ stock' = (stock \ {Row(s)}) \cup
                {[Row(s) EXCEPT !.quantity = RSub(Row(s).quantity, q),
                                !.total_amount = RMul(RSub(Row(s).quantity, q),
                                                      Row(s).unit_cost)]}
           /\ \E u \in order_items_used' :
                /\ u \notin order_items_used
                /\ \A v \in order_items_used : v.id # u.id
                /\ u.order_id = o /\ u.stock_item_id = s /\ u.quantity_used = q
                /\ order_items_used' = order_items_used \cup {u}
           /\ stock_additions' = stock_additions]_vars

\* the second of two usage records was just saved, with two stock items present
C6_Witness ==
    /\ response = UsageSaved
    /\ Cardinality(order_items_used) = 2
    /\ Cardinality(stock) = 2

\* what usage took off an item: what was added minus what is left
Deducted(r) == RSub(audit[r.id].added_qty, r.quantity)

\* C7 (as stated): for every stock item, the quantity deducted from it by
\* usage equals the sum of quantity_used over the usage records that
\* reference it.
C7_UsageMatchesDeduction ==
    \A r \in stock : Deducted(r) = SumUsed(UsageOf(r.id))

\* C7 (amended): the quantity deducted equals the sum over the usage records
\* that reference the item plus the records deleteOrder removed.
C7_UsageMatchesDeductionUpToDeletedOrders ==
    \A r \in stock :
       Deducted(r) = RAdd(SumUsed(UsageOf(r.id)), audit[r.id].cascaded)

\* an item with one usage record left and one removed by deleteOrder
C7_Witness ==
    \E r \in stock : /\ audit[r.id].cascaded # Zero
                     /\ UsageOf(r.id) # {}

\* C8: whenever a usage record is created, the referenced item's quantity
\* just before the deduction was >= the record's quantity_used.
C8_UsageValidatedAtCreation ==
    [][\A u \in order_items_used' \ order_items_used :
         /\ Exists(u.stock_item_id)
         /\ RLe(u.quantity_used, Row(u.stock_item_id).quantity)]_vars

\* every usage record refers to a stock item that exists
UsageRefersToStock == \A u \in order_items_used : Exists(u.stock_item_id)

\* C9: deleteStockItem fails with InUse and leaves the item when a usage
\* record references it, removes the item when none does; so every usage
\* record's stock_item_id refers to an existing stock item.
C9_DeleteGuard ==
    /\ []UsageRefersToStock
    /\ [][\A s \in StockIds :
            DeleteStock(s) =>
              IF UsageOf(s) # {}
              THEN /\ stock' = stock
                   /\ response' = "This stock item has been used in previous orders and cannot be deleted."
              ELSE /\ stock' = {r \in stock : r.id # s}
                   /\ response' = "Stock item deleted successfully!"]_vars

\* a delete was refused for an item that usage references
C9_Witness ==
    /\ response = "This stock item has been used in previous orders and cannot be deleted."
    /\ \E u \in order_items_used : Exists(u.stock_item_id)

\* C10: deleteOrder removes the order and every usage record of it, no usage
\* record of another order, and leaves stock and stock_additions unchanged.
C10_DeleteOrderEffect ==
    [][\A o \in OrderIds :
         OwnerOrdersDelete(o) =>
           /\ \A x \in orders' : x.id # o
           /\ orders' \subseteq orders
           /\ \A x \in orders : x.id # o => x \in orders'
           /\ \A u \in order_items_used' : u.order_id # o
           /\ order_items_used' \subseteq order_items_used
           /\ \A u \in order_items_used : u.order_id # o => u \in order_items_used'
           /\ stock' = stock
           /\ stock_additions' = stock_additions]_vars

\* an order was deleted with its usage, another order's usage is still there
C10_Witness ==
    /\ response = "Order updated successfully!"
    /\ orders = {} /\ orders_seq = 1
    /\ order_items_used # {}
    /\ \E i \in StockIds : audit[i].cascaded # Zero

(* ===================== lookup keys of upsert_stock ==================== *)
\* the ledger with two item names, two sizes and blank or padded item numbers
KeyItemNames == {"A", "B"}
KeyItemNoTexts == {None, <<" ">>, <<" ", "7">>}
KeySizeTexts == {None, <<"L", " ">>}
KeyQtyTexts == {Float(1), NotANumber}
KeyCostTexts == {Float(1)}

NextKeys ==
    \/ \E n \in KeyItemNames, no \in KeyItemNoTexts, sz \in KeySizeTexts,
          q \in KeyQtyTexts, c \in KeyCostTexts :
         WorkerStock(n, no, sz, q, c)
    \/ \E a \in {"add_stock", ""}, n \in KeyItemNames, no \in KeyItemNoTexts,
          sz \in KeySizeTexts, q \in KeyQtyTexts, c \in KeyCostTexts :
         OwnerStock(a, n, no, sz, q, c)
    \/ \E s \in StockIds : AddOrderItem(1, s, Float(1))
    \/ \E s \in StockIds : DeleteStock(s)
    \/ OwnerOrdersDelete(1)

SpecKeys == Init /\ [][NextKeys]_vars

AddFlashes == {"Stock updated", "Stock added or updated successfully"}

\* the item_no and size addStock looks up and stores
KeyNo(no) == Strip(OrEmpty(FormGet(no, Empty)))
KeySize(sz) == Strip(OrEmpty(FormGet(sz, Empty)))

\* the rows the claimed lookup key selects
Target(n, no, sz) ==
    IF KeyNo(no) # Empty
    THEN {r \in stock : r.item_no = KeyNo(no)}
    ELSE {r \in stock : r.item_name = n /\ r.size = KeySize(sz)}

AnyAddStock(n, no, sz, q, c) ==
    WorkerStock(n, no, sz, q, c) \/ OwnerStock("add_stock", n, no, sz, q, c)

\* C11: addStock selects its target by item_no alone when the trimmed item_no
\* is non-empty, otherwise by (item_name, size) with an absent size as "";
\* it updates one matched item when there is one, creates exactly one new
\* item when there is none, and changes no other stock item.
C11_AddStockTarget ==
    [][response' \in AddFlashes =>
       \A n \in KeyItemNames, no \in KeyItemNoTexts, sz \in KeySizeTexts,
          q \in {x \in KeyQtyTexts : IsNumeric(x)}, c \in KeyCostTexts :
         AnyAddStock(n, no, sz, q, c) =>
           IF Target(n, no, sz) # {}
           THEN \E row \in Target(n, no, sz) :
                  \E new \in stock' :
                     /\ new.id = row.id
                     /\ new.item_name = row.item_name
                     /\ new.item_no = row.item_no
                     /\ new.size = row.size
                     /\ new.quantity = RAdd(row.quantity, q)
                     /\ stock' = (stock \ {row}) \cup {new}
           ELSE \E new \in stock' :
                     /\ \A r \in stock : r.id # new.id
                     /\ new.item_name = n
                     /\ new.item_no = KeyNo(no)
                     /\ new.size = KeySize(sz)
                     /\ stock' = stock \cup {new}]_vars

\* an addition with an item_no made a new item next to one of the same
\* item_name and size
C11_Witness ==
    /\ response \in AddFlashes
    /\ \E r, t \in stock : /\ r.id < t.id
                           /\ r.item_name = t.item_name /\ r.size = t.size
                           /\ r.item_no = Empty /\ t.item_no # Empty

\* C20 (as stated): no two stock items share a non-empty item_no and no two
\* share an (item_name, size) pair, so every addStock lookup matches at most
\* one item.
C20_KeysUnambiguous ==
    \A r, t \in stock :
       r.id # t.id =>
          /\ ~(r.item_no # Empty /\ r.item_no = t.item_no)
          /\ ~(r.item_name = t.item_name /\ r.size = t.size)

\* C20 (amended): no two stock items share a non-empty item_no, and no two
\* items with an empty item_no share an (item_name, size) pair; items with
\* different item_no may share the pair.
C20_KeysUnambiguousPerLookup ==
    \A r, t \in stock :
       r.id # t.id =>
          /\ ~(r.item_no # Empty /\ r.item_no = t.item_no)
          /\ ~(r.item_no = Empty /\ t.item_no = Empty
               /\ r.item_name = t.item_name /\ r.size = t.size)

\* two items side by side, one with and one without an item_no
C20_Witness ==
    /\ Cardinality(stock) = 2
    /\ \E r, t \in stock : r.item_no = Empty /\ t.item_no # Empty
    /\ Len(stock_additions) = 2

(* ====================== arithmetic of upsert_stock ==================== *)
\* additions only, with the quantities and costs of the worked example
AddnQtyTexts == {Float(-5), Float(0), Float(5), Float(10), NotANumber}
AddnCostTexts == {Float(0), Float(75), Float(100), NotANumber}

NextAdditions ==
    \/ \E n \in ItemNames, no \in ItemNoTexts, sz \in SizeTexts,
          q \in AddnQtyTexts, c \in AddnCostTexts :
         WorkerStock(n, no, sz, q, c)
    \/ \E a \in {"add_stock", ""}, n \in ItemNames, no \in ItemNoTexts,
          sz \in SizeTexts, q \in AddnQtyTexts, c \in AddnCostTexts :
         OwnerStock(a, n, no, sz, q, c)

SpecAdditions == Init /\ [][NextAdditions]_vars

AddnQty == {q \in AddnQtyTexts : IsNumeric(q)}
AddnCost == {c \in AddnCostTexts : IsNumeric(c)}
Found(n, no, sz) == LookupRows(n, KeyNo(no), KeySize(sz))

ExampleLogged ==
    /\ Len(stock_additions) = 2
    /\ stock_additions[1].quantity = Float(10)
    /\ stock_additions[1].total_amount_added = Float(100)
    /\ stock_additions[2].quantity = Float(5)
    /\ stock_additions[2].total_amount_added = Float(75)
    /\ Cardinality(stock) = 1

\* C13 (as stated): an addStock that finds an item (oldQty, oldUnitCost) leaves it with
\* quantity = oldQty + addedQty, unit_cost = (oldQty * oldUnitCost + cost) /
\* newQty when newQty > 0 and 0 otherwise, total_amount = newQty *
\* newUnitCost; 10 for 100 then 5 for 75 gives 15, 12.5 and 187.5.
C13_UpdatedItem ==
    /\ [](ExampleLogged =>
            \A r \in stock : /\ r.quantity = Float(15)
                             /\ r.unit_cost = <<25, 2>>
                             /\ r.total_amount = <<375, 2>>)
    /\ [][response' \in AddFlashes =>
          \A n \in ItemNames, no \in ItemNoTexts, sz \in SizeTexts,
             q \in AddnQty, c \in AddnCost :
            (AnyAddStock(n, no, sz, q, c) /\ Found(n, no, sz) # {}) =>
              \E row \in Found(n, no, sz) :
                 LET newQty == RAdd(row.quantity, q)
                     newUnit == IF RLt(Zero, newQty)
                                THEN RDiv(RAdd(RMul(row.quantity, row.unit_cost), c),
                                          newQty)
                                ELSE Zero
                 IN stock' = (stock \ {row}) \cup
                       {[row EXCEPT !.quantity = newQty,
                                    !.unit_cost = newUnit,
                                    !.total_amount = RMul(newQty, newUnit)]}]_vars

\* C13 (amended): an addStock that finds an item (oldQty, oldUnitCost) leaves it with
\* quantity = oldQty + addedQty, unit_cost = (oldQty * oldUnitCost + cost) /
\* newQty when newQty > 0 and 0 otherwise, total_amount = newQty *
\* newUnitCost; 10 for 100 then 5 for 75 gives 15, 35/3 (about 11.67)
\* and 175.
C13_UpdatedItemExample175 ==
    /\ [](ExampleLogged =>
            \A r \in stock : /\ r.quantity = Float(15)
                             /\ r.unit_cost = <<35, 3>>
                             /\ r.total_amount = Float(175))
    /\ [][response' \in AddFlashes =>
          \A n \in ItemNames, no \in ItemNoTexts, sz \in SizeTexts,
             q \in AddnQty, c \in AddnCost :
            (AnyAddStock(n, no, sz, q, c) /\ Found(n, no, sz) # {}) =>
              \E row \in Found(n, no, sz) :
                 LET newQty == RAdd(row.quantity, q)
                     newUnit == IF RLt(Zero, newQty)
                                THEN RDiv(RAdd(RMul(row.quantity, row.unit_cost), c),
                                          newQty)
                                ELSE Zero
                 IN stock' = (stock \ {row}) \cup
                       {[row EXCEPT !.quantity = newQty,
                                    !.unit_cost = newUnit,
                                    !.total_amount = RMul(newQty, newUnit)]}]_vars

\* the worked example has happened
C13_Witness == ExampleLogged /\ \E r \in stock : r.quantity = Float(15)

\* C14 (as stated): an addStock that creates or updates a stock item appends
\* exactly one StockAddition (itemName, itemNo, addedQty, cost / addedQty or
\* 0 when addedQty is 0, cost); a failing addStock changes neither the stock
\* table nor the addition log.
C14_AdditionLogged ==
    [][response' \in AddFlashes \cup {"ValueError"} =>
       \A n \in ItemNames, no \in ItemNoTexts, sz \in SizeTexts,
          q \in AddnQtyTexts, c \in AddnCostTexts :
         AnyAddStock(n, no, sz, q, c) =>
           IF IsNumeric(q) /\ IsNumeric(c)
           THEN /\ Len(stock_additions') = Len(stock_additions) + 1
                /\ SubSeq(stock_additions', 1, Len(stock_additions)) = stock_additions
                /\ LET a == stock_additions'[Len(stock_additions')]
                   IN /\ a.item_name = n /\ a.item_no = KeyNo(no)
                      /\ a.quantity = q /\ a.total_amount_added = c
                      /\ a.unit_cost = IF q = Zero THEN Zero ELSE RDiv(c, q)
           ELSE stock' = stock /\ stock_additions' = stock_additions]_vars

\* C14 (amended): the logged unit cost is cost / addedQty when addedQty > 0
\* and 0 when addedQty <= 0.
C14_AdditionLoggedPositive ==
    [][response' \in AddFlashes \cup {"ValueError"} =>
       \A n \in ItemNames, no \in ItemNoTexts, sz \in SizeTexts,
          q \in AddnQtyTexts, c \in AddnCostTexts :
         AnyAddStock(n, no, sz, q, c) =>
           IF IsNumeric(q) /\ IsNumeric(c)
           THEN /\ Len(stock_additions') = Len(stock_additions) + 1
                /\ SubSeq(stock_additions', 1, Len(stock_additions)) = stock_additions
                /\ LET a == stock_additions'[Len(stock_additions')]
                   IN /\ a.item_name = n /\ a.item_no = KeyNo(no)
                      /\ a.quantity = q /\ a.total_amount_added = c
                      /\ a.unit_cost = IF RLt(Zero, q) THEN RDiv(c, q) ELSE Zero
           ELSE stock' = stock /\ stock_additions' = stock_additions]_vars

\* a non-numeric addStock was refused after one addition had been logged
C14_Witness ==
    /\ response = "ValueError"
    /\ Len(stock_additions) = 1
    /\ Cardinality(stock) = 1


(* ------------------------- C15, C16, C19 ------------------------------ *)
IsPrefix(a, b) == Len(a) <= Len(b) /\ SubSeq(b, 1, Len(a)) = a

\* C15: the addition log is append-only: every step keeps the records that
\* exist, unchanged and in place, whatever the operation (addStock,
\* consumeStock, bulk usage, deleteStockItem, deleteOrder), and a step that
\* adds a record is an addStock.
C15_AdditionLogAppendOnly ==
    [][/\ IsPrefix(stock_additions, stock_additions')
       /\ stock_additions' # stock_additions =>
            \E n \in ItemNames, no \in ItemNoTexts, sz \in SizeTexts,
               q \in AddQtyTexts, c \in AddCostTexts : AnyAddStock(n, no, sz, q, c)]_vars

\* two additions logged, then stock consumed, an item deleted and an order deleted
C15_Witness ==
    /\ Len(stock_additions) = 2
    /\ \E i \in StockIds : audit[i].deducted # Zero
    /\ Cardinality(stock) < stock_seq
    /\ response = "Order updated successfully!"

\* C16: a usage record is created only together with the deduction of its
\* quantity_used from the stock item it names, in the same step; a record
\* that exists never changes; and a record disappears only in a deleteOrder
\* of the order it references.
C16_UsageRecordLifecycle ==
    [][/\ \A u \in order_items_used' \ order_items_used :
            /\ \A v \in order_items_used : v.id # u.id
            /\ \E s \in stock, t \in stock' :
                 /\ s.id = u.stock_item_id
                 /\ t = [s EXCEPT !.quantity = RSub(s.quantity, u.quantity_used),
                                  !.total_amount = t.total_amount]
       /\ \A u \in order_items_used, v \in order_items_used' : u.id = v.id => u = v
       /\ \A u \in order_items_used \ order_items_used' :
            /\ response' = "Order updated successfully!"
            /\ OwnerOrdersDelete(u.order_id)]_vars

\* two records created, one removed by deleting its order, the other kept
C16_Witness ==
    /\ usage_seq = 2
    /\ Cardinality(order_items_used) = 1
    /\ response = "Order updated successfully!"

\* C19: in every reachable state every usage record's order_id is the id of
\* an order that exists.
C19_UsageRefersToOrder ==
    \A u \in order_items_used : \E o \in orders : o.id = u.order_id


(* ------------------------------- C17 ---------------------------------- *)
Statuses == {"Pending", "In Progress", "Completed", "Cancelled"}
ReceiveDateTexts == {"", "2025-01-01"}
PaidTexts == {Empty, Float(1), NotANumber}
TotalCostTexts == {Empty, Float(1), NotANumber}
OrderQtyTexts == {Float(1), NotANumber}
WorkerActs == {"update_status", "update_paid", ""}
OwnerActs == {"update_status", "update_paid", "update_total_cost", "delete_order", ""}

NextOrders ==
    \/ CustomerPlaceOrder
    \/ \E o \in OrderIds, a \in WorkerActs, s \in Statuses, p \in PaidTexts :
         WorkerOrders(o, a, s, p)
    \/ \E o \in OrderIds, a \in OwnerActs, s \in Statuses, p \in PaidTexts,
          tc \in TotalCostTexts :
         OwnerOrders(o, a, s, p, tc)
    \/ \E o \in OrderIds, q \in OrderQtyTexts, tc \in TotalCostTexts, s \in Statuses,
          rd \in ReceiveDateTexts :
         OwnerEditOrder(o, q, tc, s, rd)

SpecOrders == Init /\ [][NextOrders]_vars

StatusFlashes == {"Updated", "Order updated successfully!", "Order updated!"}

\* a completed request that sets the status of order oid to s
SetsStatus(oid, s) ==
    \/ WorkerOrders(oid, "update_status", s, Empty)
    \/ OwnerOrders(oid, "update_status", s, Empty, Empty)
    \/ \E q \in OrderQtyTexts, tc \in TotalCostTexts, rd \in ReceiveDateTexts :
         /\ response' = "Order updated!"
         /\ OwnerEditOrder(oid, q, tc, s, rd)

\* C17: any status may be set on an order from any current status, and
\* after every operation that sets an order's status (worker status update,
\* owner status update, owner order edit) the order has that status and its
\* receive_date is set if and only if the status is Completed.
C17_ReceiveDateIffCompleted ==
    [][response' \in StatusFlashes =>
         \A oid \in OrderIds, s \in Statuses :
           SetsStatus(oid, s) =>
             \A o \in orders' :
               o.id = oid =>
                 /\ o.status = s
                 /\ (o.receive_date # "NULL") <=> (s = "Completed")]_vars


(* ------------------------------- C18 ---------------------------------- *)
ConcAddOps ==
    {AddOp(n, no, sz, Float(1), Float(1)) :
       n \in ItemNames, no \in ItemNoTexts, sz \in SizeTexts}
ConcUseOps == {UseOp(1, s, Float(1)) : s \in StockIds}

NextConc ==
    \/ \E n \in ItemNames, no \in ItemNoTexts, sz \in SizeTexts,
          q \in AddQtyTexts, c \in AddCostTexts :
         Quiet /\ WorkerStock(n, no, sz, q, c)
    \/ \E r \in Reqs, op \in ConcAddOps : ConcReadAdd(r, op)
    \/ \E r \in Reqs, op \in ConcUseOps : ConcReadUse(r, op)
    \/ \E r \in Reqs : ConcWriteAdd(r)
    \/ \E r \in Reqs : ConcWriteUse(r)

SpecConc == Init /\ [][NextConc]_vars

BothDone == \A r \in Reqs : inflight.reqs[r].pc = "done"

\* C18: when two requests on the stock ledger (two addStock, two
\* consumeStock, or one of each) run at the same time, with their read and
\* write steps interleaved in any way, the database they leave is one that
\* running them one after the other, in some order, can leave (so that no
\* added quantity is lost, no second item is created for the same key, and
\* no quantity becomes negative).
C18_SerialOutcome ==
    BothDone =>
      Db \in SerialOutcomes(inflight.base, inflight.reqs["a"].op, inflight.reqs["b"].op)

====
